---- MODULE Spec2Model ----
(***************************************************************************)
(* A model of halo2-playground:                                            *)
(*   - commit_instances (src/src/lib.rs), the instance-commitment helper,  *)
(*     as a step machine over its two loops;                               *)
(*   - the multiplication demo circuit (src/bin/multiplication.rs), as the *)
(*     sequence of region assignments of synthesize followed by the check  *)
(*     of its gate, copy and instance constraints.                         *)
(* The commitment scheme, the evaluation domain and the scalar field are   *)
(* library collaborators; they are modelled over a small ring Z_q whose    *)
(* additive group also stands for the curve group (a group of order q).    *)
(***************************************************************************)
EXTENDS Integers, Sequences, FiniteSets, TLC

VARIABLES
    \* ---- commit_instances ----
    params,          \* Scheme::ParamsVerifier: [n, g_lagrange, w]
    vk,              \* VerifyingKey: [cs |-> [num_instance_columns, blinding_factors], domain]
    instances,       \* &[&[&[Scalar]]], the caller's data
    overflow_checks, \* build profile: TRUE = arithmetic overflow panics, FALSE = wraps
    pc,              \* "shape" | "map" | "done" | "idle"
    i,               \* index of the instance set being visited (1-based)
    j,               \* index of the vector being visited inside set i (1-based)
    inner,           \* commitments collected so far for set i
    outer,           \* per-set commitment vectors collected so far
    checked,         \* positions <<i, j>> on which the length check was evaluated
    calls,           \* invocations of the commit primitive, in order
    ret              \* what the call returned
VARIABLES
    \* ---- multiplication circuit ----
    circuit,         \* DefaultCircuit: [a, b]
    public_inputs,   \* the instance column handed to the prover
    advice,          \* assigned advice cells: <<column, row>> -> value
    s_mul,           \* rows at which the selector is enabled
    copies,          \* equality constraints between cells
    cells,           \* the AssignedCells returned by the regions: name -> cell
    next_row,        \* SimpleFloorPlanner: first free row of each advice column
    mpc,             \* "load_a" | "load_b" | "mul" | "instance" | "verify" | "done" | "idle"
    verdict          \* result of MockProver::verify

cvars == <<params, vk, instances, overflow_checks, pc, i, j, inner, outer,
           checked, calls, ret>>
mvars == <<circuit, public_inputs, advice, s_mul, copies, cells, next_row, mpc, verdict>>
vars == <<cvars, mvars>>

(***************************************************************************)
(* Bounds of the model.                                                    *)
(***************************************************************************)
MaxSets == 2        \* instance sets in a batch
MaxVectors == 4     \* vectors in a batch, all sets together
MaxCols == 2        \* declared instance columns
MaxLen == 3         \* length of the long input vectors
MaxK == 2           \* log2 of the largest domain size
MaxBlinding == 2    \* largest blinding-factor count
FieldModulus == 17  \* order q of the scalar ring and of the group
MaxDummy == 1       \* largest value tried in instance row 0 of the circuit

Scalars == 0 .. (FieldModulus - 1)

RECURSIVE SumTo(_, _)
SumTo(f, k) == IF k = 0 THEN 0 ELSE f[k] + SumTo(f, k - 1)

(***************************************************************************)
(* Library primitives used by commit_instances.                            *)
(***************************************************************************)

\* Scheme::Scalar::zero()
Scalar_zero == 0

\* Blind::default(): the fixed blinding value
Blind_default == 1

\* slice.to_vec(): a fresh copy of the caller's vector
to_vec(v) == [k \in 1 .. Len(v) |-> v[k]]

\* Vec::resize(new_len, value): truncates a longer vector, extends a shorter
\* one with copies of value
\* (variant: pads with value + 1)
resize_one(v, new_len, value) ==
    [k \in 1 .. new_len |-> IF k <= Len(v) THEN v[k] ELSE value + 1]
resize(v, new_len, value) ==
    [k \in 1 .. new_len |-> IF k <= Len(v) THEN v[k] ELSE value]

\* vk.domain.lagrange_from_vec(poly): the vector taken as the evaluations of a
\* polynomial over the domain
lagrange_from_vec(domain, values) == [basis |-> "lagrange", values |-> values]

\* params.commit_lagrange(&poly, blind): the multi-scalar product of the
\* evaluations with the Lagrange bases, plus blind times the blinding base,
\* as a projective point
commit_lagrange(p, poly, blind) ==
    [form |-> "projective",
     point |-> (SumTo([k \in 1 .. Len(poly.values) |->
                          poly.values[k] * p.g_lagrange[k]], Len(poly.values))
                + blind * p.w) % FieldModulus]

\* Curve::to_affine()
to_affine(c) == [form |-> "affine", point |-> c.point]

(***************************************************************************)
(* usize arithmetic of the length check (lib.rs line 28).                  *)
(* A usize is written [wrapped, value]: the number value when wrapped is   *)
(* FALSE, the number 2^64 + value (value < 0) when the subtraction wrapped *)
(* around.  A slice length is below 2^63, so it never exceeds a wrapped    *)
(* difference of two small numbers.                                        *)
(***************************************************************************)
usize_sub(x, y) == [wrapped |-> x < y, value |-> x - y]

usize_gt(len, u) == IF u.wrapped THEN FALSE ELSE len > u.value

\* params.n() as usize - (vk.cs.blinding_factors() + 1)
capacity == usize_sub(params.n, vk.cs.blinding_factors + 1)

\* instance.len() > params.n() as usize - (vk.cs.blinding_factors() + 1)
\* (variants: a bound that refuses its own value; a bound that forgets the
\* blinding rows)
too_large_ge(v) == ~capacity.wrapped /\ Len(v) >= capacity.value
too_large_n(v) == Len(v) > params.n
too_large(v) == usize_gt(Len(v), capacity)

\* lines 31-33: the copy of v, padded to n, as a Lagrange polynomial
poly_of(v) == lagrange_from_vec(vk.domain, resize(to_vec(v), params.n, Scalar_zero))

\* line 35: the affine commitment of the padded copy under the default blind
commit_one(v) == to_affine(commit_lagrange(params, poly_of(v), Blind_default))

(***************************************************************************)
(* Inputs.                                                                 *)
(***************************************************************************)
Lengths == {0, 1, MaxLen}

\* the scalars of the vector at position (s, c): they differ from one
\* position to the next, and 0 occurs among them
Vector(s, c, len) == [k \in 1 .. len |-> (5 * s + 3 * c + k) % FieldModulus]

\* the length lists of one set of at most b vectors
LenSeqs(b) == UNION {[1 .. c -> Lengths] : c \in 0 .. b}

\* the batches of at most s sets and at most b vectors, as lists of length lists
RECURSIVE Shapes(_, _)
Shapes(s, b) ==
    IF s = 0 THEN {<<>>}
    ELSE {<<>>} \cup UNION {{<<ls>> \o rest : rest \in Shapes(s - 1, b - Len(ls))} :
                               ls \in LenSeqs(b)}

Batch(sh) == [s \in 1 .. Len(sh) |-> [c \in 1 .. Len(sh[s]) |-> Vector(s, c, sh[s][c])]]

MakeParams(n) == [n |-> n,
                  g_lagrange |-> [k \in 1 .. n |-> (k % (FieldModulus - 1)) + 1],
                  w |-> 3]

MakeVk(cols, bf, n) == [cs |-> [num_instance_columns |-> cols, blinding_factors |-> bf],
                        domain |-> [n |-> n]]

\* Result values: Ok(commitments), Err(kind), or the panic of an overflowing
\* subtraction
NoRet == [tag |-> "none", err |-> "", value |-> <<>>]
Ok(v) == [tag |-> "Ok", err |-> "", value |-> v]
\* (variant: an error that carries the commitments computed so far)
ErrPartial(e) == [tag |-> "Err", err |-> e, value |-> Append(outer, inner)]
Err(e) == [tag |-> "Err", err |-> e, value |-> <<>>]
Panic == [tag |-> "panic", err |-> "attempt to subtract with overflow", value |-> <<>>]

IdleCircuit ==
    /\ circuit = [a |-> 0, b |-> 0]
    /\ public_inputs = <<>>
    /\ advice = <<>>
    /\ s_mul = {}
    /\ copies = {}
    /\ cells = <<>>
    /\ next_row = <<>>
    /\ mpc = "idle"
    /\ verdict = "none"

\* The state at the entry of commit_instances, for every input of the bounds
Init ==
    /\ \E k \in 1 .. MaxK, bf \in 0 .. MaxBlinding, cols \in 0 .. MaxCols :
          /\ params = MakeParams(2 ^ k)
          /\ vk = MakeVk(cols, bf, 2 ^ k)
    /\ \E sh \in Shapes(MaxSets, MaxVectors) : instances = Batch(sh)
    /\ overflow_checks \in BOOLEAN
    /\ pc = "shape"
    /\ i = 1
    /\ j = 1
    /\ inner = <<>>
    /\ outer = <<>>
    /\ checked = <<>>
    /\ calls = <<>>
    /\ ret = NoRet
    /\ IdleCircuit

\* the inputs of the call: never assigned by commit_instances
Inputs == <<params, vk, instances, overflow_checks>>

(***************************************************************************)
(* commit_instances, lines 15-20: the column-count check of every set.     *)
(***************************************************************************)
\* (variant: only a set with too many columns is refused)
shape_mismatch_gt(set) == Len(set) > vk.cs.num_instance_columns
shape_mismatch(set) == Len(set) # vk.cs.num_instance_columns

\* line 17 false: the set has the declared number of columns
CheckShapeOk ==
    /\ pc = "shape"
    /\ i <= Len(instances)
    /\ ~shape_mismatch(instances[i])
    /\ i' = i + 1
    /\ UNCHANGED <<Inputs, pc, j, inner, outer, checked, calls, ret>>
    /\ UNCHANGED mvars

\* lines 17-18: return Err(Error::InvalidInstances)
CheckShapeFail ==
    /\ pc = "shape"
    /\ i <= Len(instances)
    /\ shape_mismatch(instances[i])
    /\ ret' = Err("InvalidInstances")
    /\ pc' = "done"
    /\ UNCHANGED <<Inputs, i, j, inner, outer, checked, calls>>
    /\ UNCHANGED mvars

\* line 20: the first loop is exhausted; the iterator chain of line 22 starts
ShapeDone ==
    /\ pc = "shape"
    /\ i > Len(instances)
    /\ pc' = "map"
    /\ i' = 1
    /\ j' = 1
    /\ inner' = <<>>
    /\ outer' = <<>>
    /\ UNCHANGED <<Inputs, checked, calls, ret>>
    /\ UNCHANGED mvars

(***************************************************************************)
(* commit_instances, lines 22-39: the nested map / collect.  collect into  *)
(* a Result pulls one item at a time and stops at the first Err.           *)
(***************************************************************************)
Here == instances[i][j]

InVector == pc = "map" /\ i <= Len(instances) /\ j <= Len(instances[i])

\* line 28 in a build with overflow checks: the subtraction panics
LengthCheckPanic ==
    /\ InVector
    /\ capacity.wrapped
    /\ overflow_checks
    /\ checked' = Append(checked, <<i, j>>)
    /\ ret' = Panic
    /\ pc' = "done"
    /\ UNCHANGED <<Inputs, i, j, inner, outer, calls>>
    /\ UNCHANGED mvars

\* lines 28-29: return Err(Error::InstanceTooLarge) from the closure; both
\* collects stop and line 39 returns the error
\* (variant: all lengths are validated before the first commitment)
TooLargeEager ==
    /\ pc = "map"
    /\ i <= Len(instances)
    /\ capacity.wrapped => ~overflow_checks
    /\ \E s \in 1 .. Len(instances) : \E c \in 1 .. Len(instances[s]) :
          too_large(instances[s][c])
    /\ checked' = Append(checked, <<i, j>>)
    /\ ret' = Err("InstanceTooLarge")
    /\ pc' = "done"
    /\ UNCHANGED <<Inputs, i, j, inner, outer, calls>>
    /\ UNCHANGED mvars
TooLarge ==
    /\ InVector
    /\ capacity.wrapped => ~overflow_checks
    /\ too_large(Here)
    /\ checked' = Append(checked, <<i, j>>)
    /\ ret' = Err("InstanceTooLarge")
    /\ pc' = "done"
    /\ UNCHANGED <<Inputs, i, j, inner, outer, calls>>
    /\ UNCHANGED mvars

\* lines 28-35 with the check passed: copy, pad, convert, commit
\* (variant: the caller's vector is padded in place)
CommitVectorInPlace ==
    /\ InVector
    /\ capacity.wrapped => ~overflow_checks
    /\ ~too_large(Here)
    /\ checked' = Append(checked, <<i, j>>)
    /\ calls' = Append(calls, [set |-> i, col |-> j, poly |-> poly_of(Here),
                                blind |-> Blind_default, out |-> commit_one(Here)])
    /\ inner' = Append(inner, commit_one(Here))
    /\ j' = j + 1
    /\ instances' = [instances EXCEPT ![i][j] = resize(Here, params.n, Scalar_zero)]
    /\ UNCHANGED <<params, vk, overflow_checks, pc, i, outer, ret>>
    /\ UNCHANGED mvars
CommitVector ==
    /\ InVector
    /\ capacity.wrapped => ~overflow_checks
    /\ ~too_large(Here)
    /\ checked' = Append(checked, <<i, j>>)
    /\ calls' = Append(calls, [set |-> i, col |-> j, poly |-> poly_of(Here),
                                blind |-> Blind_default, out |-> commit_one(Here)])
    /\ inner' = Append(inner, commit_one(Here))
    /\ j' = j + 1
    /\ UNCHANGED <<Inputs, pc, i, outer, ret>>
    /\ UNCHANGED mvars

\* line 37: the inner collect of set i is complete
InnerDone ==
    /\ pc = "map"
    /\ i <= Len(instances)
    /\ j > Len(instances[i])
    /\ outer' = Append(outer, inner)
    /\ inner' = <<>>
    /\ i' = i + 1
    /\ j' = 1
    /\ UNCHANGED <<Inputs, pc, checked, calls, ret>>
    /\ UNCHANGED mvars

\* lines 39-41: the outer collect is complete; Ok(instance_commitments)
OuterDone ==
    /\ pc = "map"
    /\ i > Len(instances)
    /\ ret' = Ok(outer)
    /\ pc' = "done"
    /\ UNCHANGED <<Inputs, i, j, inner, outer, checked, calls>>
    /\ UNCHANGED mvars

Next ==
    \/ CheckShapeOk
    \/ CheckShapeFail
    \/ ShapeDone
    \/ LengthCheckPanic
    \/ TooLarge
    \/ CommitVector
    \/ InnerDone
    \/ OuterDone

Spec == Init /\ [][Next]_vars

(***************************************************************************)
(* The multiplication circuit (src/bin/multiplication.rs).                 *)
(***************************************************************************)
\* let k = 4 in main: MockProver::run(k, ...) lays the circuit on 2^k rows
K_mul == 4

Rows == 0 .. (2 ^ K_mul - 1)

\* field arithmetic of Fr, here in Z_q
Fadd(x, y) == (x + y) % FieldModulus
Fmul(x, y) == (x * y) % FieldModulus
Fsub(x, y) == (x - y + FieldModulus) % FieldModulus

Cell(col, row) == [column |-> col, row |-> row]

\* SimpleFloorPlanner: a region starts at the first row free in all its columns
RECURSIVE MaxOf(_)
MaxOf(S) == IF S = {} THEN 0
            ELSE LET x == CHOOSE y \in S : TRUE
                     m == MaxOf(S \ {x})
                 IN  IF x > m THEN x ELSE m

region_start(cols) == MaxOf({next_row[c] : c \in cols})

\* the columns of the region now start after its last row
claim_rows(cols, start, count) ==
    [c \in DOMAIN next_row |-> IF c \in cols THEN start + count ELSE next_row[c]]

\* the value MockProver reads in a cell: an unassigned advice cell and an
\* instance row past the public inputs read as zero
cell_value(c) ==
    IF c.column = "instance"
    THEN IF c.row + 1 <= Len(public_inputs) THEN public_inputs[c.row + 1] ELSE 0
    ELSE IF c \in DOMAIN advice THEN advice[c] ELSE 0

selector_value(row) == IF row \in s_mul THEN 1 ELSE 0

\* configure, lines 57-63: the gate "mul", s_mul * (lhs * rhs - out)
\* (variant: a gate that adds)
gate_add(s, lhs, rhs, out) == Fmul(s, Fsub(Fadd(lhs, rhs), out))
gate_mul(s, lhs, rhs, out) == Fmul(s, Fsub(Fmul(lhs, rhs), out))

\* the gate polynomial at a row: advice[0] and advice[1] at Rotation::cur,
\* advice[0] at Rotation::next (rotations wrap around the domain)
gate_at(row) ==
    gate_mul(selector_value(row),
             cell_value(Cell("advice0", row)),
             cell_value(Cell("advice1", row)),
             cell_value(Cell("advice0", (row + 1) % (2 ^ K_mul))))

\* MockProver::verify: every gate is zero on every row and every equality
\* constraint joins cells of equal value
verify ==
    IF /\ \A row \in Rows : gate_at(row) = 0
       /\ \A e \in copies : cell_value(e[1]) = cell_value(e[2])
    THEN "Ok" ELSE "Err"

IdleCommit ==
    /\ params = MakeParams(2)
    /\ vk = MakeVk(1, 0, 2)
    /\ instances = <<>>
    /\ overflow_checks = TRUE
    /\ pc = "idle"
    /\ i = 1
    /\ j = 1
    /\ inner = <<>>
    /\ outer = <<>>
    /\ checked = <<>>
    /\ calls = <<>>
    /\ ret = NoRet

\* main, lines 170-183: a circuit with private a and b, public inputs [x, c]
MulInit ==
    /\ \E a \in Scalars, b \in Scalars : circuit = [a |-> a, b |-> b]
    /\ \E x \in 0 .. MaxDummy, c \in Scalars : public_inputs = <<x, c>>
    /\ advice = <<>>
    /\ s_mul = {}
    /\ copies = {}
    /\ cells = <<>>
    /\ next_row = [c \in {"advice0", "advice1", "s_mul"} |-> 0]
    /\ mpc = "load_a"
    /\ verdict = "none"
    /\ IdleCommit

\* synthesize, lines 76-79: region "load private a"
LoadA ==
    /\ mpc = "load_a"
    /\ LET start == region_start({"advice0"})
           cell == Cell("advice0", start + 0)
       IN  /\ advice' = (cell :> circuit.a) @@ advice
           /\ cells' = ("a" :> cell) @@ cells
           /\ next_row' = claim_rows({"advice0"}, start, 1)
    /\ mpc' = "load_b"
    /\ UNCHANGED <<circuit, public_inputs, s_mul, copies, verdict>>
    /\ UNCHANGED cvars

\* synthesize, lines 80-83: region "load private b"
LoadB ==
    /\ mpc = "load_b"
    /\ LET start == region_start({"advice1"})
           cell == Cell("advice1", start + 0)
       IN  /\ advice' = (cell :> circuit.b) @@ advice
           /\ cells' = ("b" :> cell) @@ cells
           /\ next_row' = claim_rows({"advice1"}, start, 1)
    /\ mpc' = "mul"
    /\ UNCHANGED <<circuit, public_inputs, s_mul, copies, verdict>>
    /\ UNCHANGED cvars

\* synthesize, lines 84-93: region "a * b": the selector at offset 0, copies
\* of a and b at offset 0, their product in advice[0] at offset 1
MulRegion ==
    /\ mpc = "mul"
    /\ LET cols == {"s_mul", "advice0", "advice1"}
           start == region_start(cols)
           lhs == Cell("advice0", start + 0)
           rhs == Cell("advice1", start + 0)
           out == Cell("advice0", start + 1)
           value == Fmul(advice[cells["a"]], advice[cells["b"]])
       IN  /\ s_mul' = s_mul \cup {start + 0}
           /\ advice' = (lhs :> advice[cells["a"]]) @@ (rhs :> advice[cells["b"]])
                            @@ (out :> value) @@ advice
           /\ copies' = copies \cup {<<lhs, cells["a"]>>, <<rhs, cells["b"]>>}
           /\ cells' = ("c" :> out) @@ cells
           /\ next_row' = claim_rows(cols, start, 2)
    /\ mpc' = "instance"
    /\ UNCHANGED <<circuit, public_inputs, verdict>>
    /\ UNCHANGED cvars

\* synthesize, line 94: constrain_instance(c.cell(), config.instance, 1)
ConstrainInstance ==
    /\ mpc = "instance"
    /\ copies' = copies \cup {<<cells["c"], Cell("instance", 1)>>}
    /\ mpc' = "verify"
    /\ UNCHANGED <<circuit, public_inputs, advice, s_mul, cells, next_row, verdict>>
    /\ UNCHANGED cvars

\* main, lines 183-184: prover.verify()
Verify ==
    /\ mpc = "verify"
    /\ verdict' = verify
    /\ mpc' = "done"
    /\ UNCHANGED <<circuit, public_inputs, advice, s_mul, copies, cells, next_row>>
    /\ UNCHANGED cvars

MulNext ==
    \/ LoadA
    \/ LoadB
    \/ MulRegion
    \/ ConstrainInstance
    \/ Verify

SpecMul == MulInit /\ [][MulNext]_vars

(***************************************************************************)
(* Vocabulary of the properties of commit_instances.                       *)
(***************************************************************************)
\* n - (blinding_factors + 1) as a number (negative when n < blinding_factors + 1)
Bound == params.n - (vk.cs.blinding_factors + 1)

ShapesMatch ==
    \A s \in 1 .. Len(instances) : Len(instances[s]) = vk.cs.num_instance_columns

AllFit ==
    \A s \in 1 .. Len(instances) : \A c \in 1 .. Len(instances[s]) :
        Len(instances[s][c]) <= Bound

SomeOversized ==
    \E s \in 1 .. Len(instances) : \E c \in 1 .. Len(instances[s]) :
        Len(instances[s][c]) > Bound

Returned == pc = "done"

\* v followed by explicit zeros up to length n
ManualPad(v) == v \o [k \in 1 .. (params.n - Len(v)) |-> 0]

\* the commitment of the explicitly padded v through the same primitive
Expected(v) ==
    to_affine(commit_lagrange(params, lagrange_from_vec(vk.domain, ManualPad(v)),
                              Blind_default))

\* the positions of the batch in set-major, column-minor order
RECURSIVE Flatten(_)
Flatten(ss) == IF ss = <<>> THEN <<>> ELSE Head(ss) \o Flatten(Tail(ss))

Positions ==
    Flatten([s \in 1 .. Len(instances) |-> [c \in 1 .. Len(instances[s]) |-> <<s, c>>]])

VectorAt(pos) == instances[pos[1]][pos[2]]

\* index in Positions of the first oversized vector
FirstOversized ==
    CHOOSE k \in 1 .. Len(Positions) :
        /\ Len(VectorAt(Positions[k])) > Bound
        /\ \A m \in 1 .. (k - 1) : Len(VectorAt(Positions[m])) <= Bound

CallPositions == [k \in 1 .. Len(calls) |-> <<calls[k].set, calls[k].col>>]

(***************************************************************************)
(* Properties.                                                             *)
(***************************************************************************)

\* C1: a call whose sets all have the declared column count and whose vectors
\* all have length <= n - (blinding_factors + 1) returns Ok; the result has one
\* inner vector per set, one commitment per vector, and element (s, c) is the
\* commitment of vector c of set s.
C1_ValidBatchCommitted ==
    (Returned /\ ShapesMatch /\ AllFit) =>
        /\ ret.tag = "Ok"
        /\ Len(ret.value) = Len(instances)
        /\ \A s \in 1 .. Len(instances) :
              /\ Len(ret.value[s]) = Len(instances[s])
              /\ \A c \in 1 .. Len(instances[s]) :
                    ret.value[s][c] = Expected(instances[s][c])

\* a returned batch of two sets of two vectors, one of them exactly as long as
\* the bound, whose commitments are not all equal
C1_Witness ==
    /\ Returned /\ ShapesMatch /\ AllFit
    /\ ret.tag = "Ok"
    /\ Len(instances) = 2 /\ Len(instances[1]) = 2
    /\ Len(instances[1][1]) = Bound /\ Bound > 0
    /\ Len(instances[2][2]) < Bound
    /\ ret.value[1][1] # ret.value[1][2]
    /\ ret.value[1][1] # ret.value[2][1]

\* C2: a call in which some set has a number of vectors different from the
\* declared instance-column count returns Err(InvalidInstances) and no
\* commitments, wherever the set is and whatever the vector lengths.
C2_ShapeMismatchRejected ==
    (Returned /\ ~ShapesMatch) =>
        /\ ret = Err("InvalidInstances")
        /\ ret.value = <<>>
        /\ calls = <<>>

\* the second set of two is the mismatching one, it has too few vectors, and
\* an oversized vector is present
C2_Witness ==
    /\ Returned
    /\ Len(instances) = 2
    /\ Len(instances[1]) = vk.cs.num_instance_columns
    /\ Len(instances[2]) < vk.cs.num_instance_columns
    /\ SomeOversized
    /\ ret.err = "InvalidInstances"

\* C3 as stated: a call whose input contains a vector longer than
\* n - (blinding_factors + 1) fails with InstanceTooLarge.
C3_Original ==
    (Returned /\ SomeOversized) => (ret.tag = "Err" /\ ret.err = "InstanceTooLarge")

\* C3 amended: a call whose input contains a vector longer than
\* n - (blinding_factors + 1) fails with InstanceTooLarge when every set has the
\* declared column count and n >= blinding_factors + 1; it fails with
\* InvalidInstances when some set has another column count; and when every set
\* has the declared column count and n < blinding_factors + 1 it panics in a
\* build with overflow checks and returns Ok in a build without.
C3_OversizedRejected ==
    (Returned /\ SomeOversized) =>
        /\ (ShapesMatch /\ Bound >= 0) => ret = Err("InstanceTooLarge")
        /\ ~ShapesMatch => ret = Err("InvalidInstances")
        /\ (ShapesMatch /\ Bound < 0 /\ overflow_checks) => ret.tag = "panic"
        /\ (ShapesMatch /\ Bound < 0 /\ ~overflow_checks) => ret.tag = "Ok"

\* n = 4, one blinding factor: the bound is 2, a vector of length 3 is refused
C3_Witness ==
    /\ Returned
    /\ params.n = 4 /\ vk.cs.blinding_factors = 1
    /\ ShapesMatch
    /\ Len(instances) = 1 /\ Len(instances[1]) = 1 /\ Len(instances[1][1]) = 3
    /\ ret = Err("InstanceTooLarge")

\* C4: for every accepted vector v of length m <= n - (blinding_factors + 1),
\* the coefficient vector handed to the commit primitive has length n, starts
\* with v and is zero from m on; the commitment returned for v is the
\* commitment of v explicitly zero-padded to n under the same blind.
C4_PaddingCorrect ==
    \A x \in 1 .. Len(calls) :
        LET v == instances[calls[x].set][calls[x].col]
            coeffs == calls[x].poly.values
        IN  Len(v) <= Bound =>
                /\ Len(coeffs) = params.n
                /\ \A k \in 1 .. Len(v) : coeffs[k] = v[k]
                /\ \A k \in (Len(v) + 1) .. params.n : coeffs[k] = Scalar_zero
                /\ calls[x].out = Expected(v)
                /\ calls[x].blind = Blind_default

\* a vector of one nonzero scalar was padded to a domain of four rows
C4_Witness ==
    \E x \in 1 .. Len(calls) :
        LET v == instances[calls[x].set][calls[x].col]
        IN  /\ Len(v) = 1 /\ v[1] # 0
            /\ Len(v) <= Bound
            /\ params.n = 4
            /\ Len(calls[x].poly.values) = 4

\* C6: in an execution that returns an error, the commit primitive was invoked
\* only on vectors that had passed the length check before; after a shape
\* mismatch it was invoked on no vector of any set; and the returned value
\* holds the error alone, none of the commitments already computed.
C6_ErrorsCarryNoPartialResults ==
    (Returned /\ ret.tag = "Err") =>
        /\ \A x \in 1 .. Len(calls) :
              /\ Len(instances[calls[x].set][calls[x].col]) <= Bound
              /\ \E y \in 1 .. Len(checked) : checked[y] = CallPositions[x]
        /\ (ret.err = "InvalidInstances" \/ ~ShapesMatch) => calls = <<>>
        /\ ret.value = <<>>

\* InstanceTooLarge was returned after commitments had been computed
C6_Witness ==
    /\ Returned
    /\ ret.tag = "Err" /\ ret.err = "InstanceTooLarge"
    /\ Len(calls) >= 2
    /\ outer # <<>>
    /\ ret.value = <<>>

\* C7: no step of commit_instances, in a successful or a failing execution,
\* changes params, the verifying key or a caller-supplied vector; padding is
\* applied to a copy.
C7_InputsUnchanged ==
    [][/\ params' = params
       /\ vk' = vk
       /\ instances' = instances]_vars

\* a vector of length 1 was committed as a polynomial of length n = 4 and the
\* caller's vector still has length 1 when the call has returned
C7_Witness ==
    /\ Returned
    /\ ret.tag = "Ok"
    /\ params.n = 4
    /\ Len(calls) >= 1
    /\ Len(calls[1].poly.values) = 4
    /\ Len(instances[calls[1].set][calls[1].col]) = 1

\* C8 as stated: with every set of the declared column count and oversized
\* vectors in the input, every vector before the first oversized one (set-major,
\* column-minor) is committed exactly once, the call returns InstanceTooLarge,
\* and no vector at or after the first oversized one is length-checked, padded
\* or committed.
C8_Original ==
    (Returned /\ ShapesMatch /\ SomeOversized) =>
        /\ ret = Err("InstanceTooLarge")
        /\ CallPositions = SubSeq(Positions, 1, FirstOversized - 1)
        /\ \A y \in 1 .. Len(checked) :
              \A k \in FirstOversized .. Len(Positions) : checked[y] # Positions[k]

\* C8 amended: with every set of the declared column count, oversized vectors
\* in the input and n >= blinding_factors + 1, the vectors are length-checked in
\* set-major, column-minor order up to and including the first oversized one,
\* every vector before it is padded and committed exactly once, the call
\* returns the single error InstanceTooLarge, no vector after the first
\* oversized one is length-checked and no vector at or after it is padded or
\* committed.  With n < blinding_factors + 1 the first length check panics in a
\* build with overflow checks, and in a build without every vector is
\* length-checked and committed and the call returns Ok.
C8_FailFast ==
    (Returned /\ ShapesMatch /\ SomeOversized) =>
        /\ Bound >= 0 =>
              /\ ret = Err("InstanceTooLarge")
              /\ checked = SubSeq(Positions, 1, FirstOversized)
              /\ CallPositions = SubSeq(Positions, 1, FirstOversized - 1)
        /\ (Bound < 0 /\ overflow_checks) =>
              /\ ret.tag = "panic"
              /\ checked = SubSeq(Positions, 1, 1)
              /\ calls = <<>>
        /\ (Bound < 0 /\ ~overflow_checks) =>
              /\ ret.tag = "Ok"
              /\ checked = Positions
              /\ CallPositions = Positions

\* two sets of two vectors, the first oversized vector is the first of the
\* second set: two vectors were committed, two were never visited
C8_Witness ==
    /\ Returned /\ ShapesMatch /\ SomeOversized
    /\ Bound >= 0
    /\ Len(instances) = 2 /\ Len(instances[1]) = 2
    /\ FirstOversized = 3
    /\ Len(instances[2][2]) > Bound
    /\ Len(calls) = 2
    /\ ret = Err("InstanceTooLarge")

\* C9 as stated: whenever the length check is evaluated, the subtraction
\* n - (blinding_factors + 1) does not underflow.
C9_NoUnderflow ==
    checked # <<>> => params.n >= vk.cs.blinding_factors + 1

\* C10: for all a, b and public inputs [x, c], the constraints of the
\* multiplication circuit (the gate at the product row, the copies of a and b,
\* the product cell against instance row 1) are all satisfied exactly when
\* c = a * b; x is not constrained.
C10_ProductBound ==
    mpc = "done" =>
        /\ verdict = "Ok" <=> public_inputs[2] = Fmul(circuit.a, circuit.b)
        /\ s_mul = {cells["c"].row - 1}
        /\ copies = {<<Cell("advice0", cells["c"].row - 1), cells["a"]>>,
                     <<Cell("advice1", cells["c"].row - 1), cells["b"]>>,
                     <<cells["c"], Cell("instance", 1)>>}

\* the asserted case: a = 3, b = 5, public inputs [0, 15] verify
C10_Witness ==
    /\ mpc = "done"
    /\ circuit = [a |-> 3, b |-> 5]
    /\ public_inputs = <<0, 15>>
    /\ verdict = "Ok"

====
